---- MODULE Spec2Model ----
(***************************************************************************)
(* A model of django-reversion's revision lifecycle engine:                *)
(*   - RevisionContextManager (src/src/reversion/revisions.py), the        *)
(*     nestable per-thread revision context;                               *)
(*   - RevisionManager.save_revision and _follow_relationships, which      *)
(*     expand, de-duplicate and persist a revision;                        *)
(*   - safe_revert (src/src/reversion/models.py), the retrying revert.     *)
(***************************************************************************)
EXTENDS Integers, Sequences, FiniteSets, TLC

(***************************************************************************)
(* Bounds of the model.                                                    *)
(***************************************************************************)
MaxDepth == 2
MaxMeta == 1
MaxRevisions == 2
NumObjects == 2

Managers == {"default", "other"}
Objects == 1..NumObjects
Vals == {0, 1}
Users == {"None", "alice"}
Comments == {"", "edited"}
MetaClasses == {"VersionMeta"}
ProxyModels == {"ProxyB"}
Models == {"A", "B"} \cup ProxyModels

VERSION_ADD == "ADD"
VERSION_CHANGE == "CHANGE"
VERSION_DELETE == "DELETE"

NoError == "none"
RevisionManagementError == "RevisionManagementError"
RegistrationError == "RegistrationError"
AttributeError == "AttributeError"
TypeError == "TypeError"
DatabaseError == "DatabaseError"
IntegrityError == "IntegrityError"
RevertError == "RevertError"
ObjectDoesNotExist == "ObjectDoesNotExist"
NameError == "NameError"
BodyError == "BodyError"

VARIABLES
    depth,              \* RevisionContextManager._depth
    is_invalid,         \* RevisionContextManager._is_invalid
    objects,            \* RevisionContextManager._objects: manager -> (obj -> version data)
    user,               \* RevisionContextManager._user
    comment,            \* RevisionContextManager._comment
    meta,               \* RevisionContextManager._meta: list of metadata classes
    ignore_duplicates,  \* RevisionContextManager._ignore_duplicates
    registered_models,  \* RevisionManager._registered_models, per manager
    revisions,          \* Revision table, in creation order (id = position)
    versions,           \* Version table, in creation order
    metas,              \* metadata rows, in creation order
    db,                 \* rows of the versioned models: object -> [live, val]
    references,         \* foreign keys of the rows as last serialized: object -> target
    connected,          \* post_save / pre_delete receivers connected, per manager: the sender models
    created_managers,   \* RevisionManager._created_managers: slug -> the manager holding it
    follow,             \* the followed relations of each instance: object -> related objects
    instance_model,     \* the model class of each instance
    returned,           \* what the last call that returns a value returned
    scopes,             \* the revision blocks entered and not yet left, innermost last
    thread,             \* the thread that is running
    local_dicts,        \* threading.local: the context attributes of the threads that are not running
    request_meta,       \* request.META[REVISION_MIDDLEWARE_FLAG] of each request
    requests,           \* where the handler is with each request: [pc, entry, raised]
    revert,             \* the safe_revert call under way
    err,                \* the error the last call raised to its caller: Ok or [op, error]
    saved,              \* the save_revision calls the last call made, in order:
                        \* [manager, objects, ignore_duplicates, meta, created]
    recorded            \* whether add_to_context succeeded since the context left Idle

ctxVars == <<depth, is_invalid, objects, user, comment, meta, ignore_duplicates>>
storeVars == <<revisions, versions, metas>>
hostVars == <<thread, local_dicts, request_meta, requests>>
restVars == <<registered_models, connected, created_managers, follow, instance_model, hostVars, returned, scopes>>
vars == <<depth, is_invalid, objects, user, comment, meta, ignore_duplicates,
          registered_models, connected, created_managers, follow, instance_model, returned, scopes,
          thread, local_dicts, request_meta, requests,
          revisions, versions, metas, db, references, revert,
          err, saved, recorded>>

(***************************************************************************)
(* Helpers on sets and sequences.                                          *)
(***************************************************************************)
EmptyDict == [x \in {} |-> x]

Min(S) == CHOOSE x \in S : \A y \in S : x <= y

Max(S) == CHOOSE x \in S : \A y \in S : y <= x

RECURSIVE SetToSeq(_)
SetToSeq(S) == IF S = {} THEN <<>> ELSE <<Min(S)>> \o SetToSeq(S \ {Min(S)})

\* Some enumeration of a finite set.
RECURSIVE Enumerate(_)
Enumerate(S) ==
    IF S = {} THEN <<>> ELSE LET x == CHOOSE y \in S : TRUE IN <<x>> \o Enumerate(S \ {x})

Orders(S) == {s \in [1..Cardinality(S) -> S] : \A i, j \in 1..Cardinality(S) : s[i] = s[j] => i = j}

RECURSIVE Insert(_, _)
Insert(x, s) ==
    IF s = <<>> THEN <<x>>
    ELSE IF x <= Head(s) THEN <<x>> \o s
    ELSE <<Head(s)>> \o Insert(x, Tail(s))

RECURSIVE sorted(_)
sorted(s) == IF s = <<>> THEN <<>> ELSE Insert(Head(s), sorted(Tail(s)))

RECURSIVE MapSeq(_, _)
MapSeq(s, field) == IF s = <<>> THEN <<>> ELSE <<Head(s)[field]>> \o MapSeq(Tail(s), field)

(***************************************************************************)
(* The versioned models and their instances.                               *)
(***************************************************************************)
ModelOf(o) == instance_model[o]

\* obj._meta.proxy
IsProxy(o) == ModelOf(o) \in ProxyModels

\* VersionAdapter.follow, resolved on the instance.
FollowedRelations(o) == follow[o]

\* A stored row holding v, and the place of a row that is not stored.
Row(v) == [live |-> TRUE, val |-> v]

Absent == [live |-> FALSE, val |-> 0]

\* serializers.serialize: the payload carries the primary key and the field value.
Serialize(o, v) == o * 10 + v

\* serializers.deserialize
Deserialize(s) == [obj |-> s \div 10, val |-> s % 10]

\* VersionAdapter.get_version_data of an instance o whose field holds v.
VersionData(o, v, type_flag) ==
    [object_id |-> o,
     content_type |-> ModelOf(o),
     serialized_data |-> Serialize(o, v),
     type |-> type_flag]

\* VersionAdapter.get_version_data of the instance as it is stored now.
GetVersionData(o, type_flag) == VersionData(o, db[o].val, type_flag)

(***************************************************************************)
(* RevisionManager: registry lookups and the relationship closure.         *)
(***************************************************************************)
\* RevisionManager.is_registered
IsRegistered(m, model) == model \in registered_models[m]

\* VersionAdapter.get_followed_relations: the followed instances, then the
\* proxy branch, which looks up is_registered on the adapter itself.
GetFollowedRelations(o) ==
    [related |-> FollowedRelations(o),
     err |-> IF IsProxy(o) THEN AttributeError ELSE NoError]

\* The walk before its first step: result_dict = {}.
NoneFollowed == [result |-> EmptyDict, err |-> NoError, visited |-> <<>>]

\* RevisionManager._follow_relationships: the inner recursive function, with
\* res = [result |-> result_dict, err |-> the error raised so far,
\*        visited |-> the objects whose version data was computed, in order].
RECURSIVE FollowOne(_, _, _)
RECURSIVE FollowEach(_, _, _)
FollowOne(m, o, res) ==
    IF res.err # NoError THEN res
    ELSE IF o \in DOMAIN res.result THEN res
    ELSE IF ~IsRegistered(m, ModelOf(o)) THEN [res EXCEPT !.err = RegistrationError]
    ELSE LET marked == [res EXCEPT !.result = (o :> GetVersionData(o, VERSION_CHANGE)) @@ res.result,
                                   !.visited = Append(@, o)]
             rel == GetFollowedRelations(o)
             after == FollowEach(m, rel.related, marked)
         IN  IF after.err # NoError THEN after
             ELSE [after EXCEPT !.err = rel.err]

FollowEach(m, objs, res) ==
    IF objs = <<>> THEN res
    ELSE FollowEach(m, Tail(objs), FollowOne(m, Head(objs), res))

\* A result in which the snapshots of the closure replace the recorded ones.
UpdatedWith_KeepingClosure(result_dict, object_dict) == result_dict @@ object_dict

\* "result_dict.update(object_dict)"
UpdatedWith(result_dict, object_dict) == object_dict @@ result_dict

\* RevisionManager._follow_relationships
FollowRelationships(m, object_dict) ==
    LET walked == FollowEach(m, SetToSeq(DOMAIN object_dict), NoneFollowed)
    IN  IF walked.err # NoError THEN walked
        ELSE [walked EXCEPT !.result = UpdatedWith(walked.result, object_dict)]

(***************************************************************************)
(* RevisionManager.save_revision on a store                                *)
(*   st = [revisions |-> .., versions |-> .., metas |-> ..].               *)
(* fail names the storage write of this call that fails, if any:           *)
(*   [stage |-> "none"], [stage |-> "revision"],                           *)
(*   [stage |-> "version", written |-> objects whose rows were written],   *)
(*   [stage |-> "meta", n |-> metadata rows written].                      *)
(***************************************************************************)
NoFailure == [stage |-> "none", written |-> {}, n |-> 0]

Failures ==
    {NoFailure, [stage |-> "revision", written |-> {}, n |-> 0]}
    \cup {[stage |-> "version", written |-> W, n |-> 0] : W \in SUBSET Objects}
    \cup {[stage |-> "meta", written |-> {}, n |-> k] : k \in 0..MaxMeta}

\* The new_versions list: one Version per object of the revision set that is
\* not a proxy.
NewVersions(revision_set) ==
    LET keep == SetToSeq({o \in DOMAIN revision_set : ~IsProxy(o)})
    IN  [i \in 1..Len(keep) |-> revision_set[keep[i]]]

\* Version.objects.filter(subqueries).aggregate(Max("revision")): 0 stands for None.
LatestRevision(st, new_versions) ==
    LET matching == {i \in 1..Len(st.versions) :
                        \E j \in 1..Len(new_versions) :
                            /\ st.versions[i].object_id = new_versions[j].object_id
                            /\ st.versions[i].content_type = new_versions[j].content_type}
    IN  IF matching = {} THEN 0 ELSE Max({st.versions[i].revision : i \in matching})

VersionsOf(st, rev) == SelectSeq(st.versions, LAMBDA v : v.revision = rev)

\* A duplicate check that compares the number of versions only.
ShouldSave_CardinalityOnly(st, new_versions, ign) ==
    IF ~ign THEN TRUE
    ELSE LET latest_revision == LatestRevision(st, new_versions)
         IN  IF latest_revision = 0 THEN TRUE
             ELSE Len(VersionsOf(st, latest_revision)) # Len(new_versions)

\* The duplicate check of save_revision: FALSE when the candidate repeats the
\* latest revision.
ShouldSave(st, new_versions, ign) ==
    IF ~ign THEN TRUE
    ELSE LET latest_revision == LatestRevision(st, new_versions)
             previous_versions == MapSeq(VersionsOf(st, latest_revision), "serialized_data")
             all_serialized_data == MapSeq(new_versions, "serialized_data")
         IN  IF latest_revision = 0 THEN TRUE
             ELSE IF Len(previous_versions) # Len(new_versions) THEN TRUE
             ELSE sorted(previous_versions) # sorted(all_serialized_data)

\* Whether the failure named by fail happens in a call writing these rows.
FailureApplies(fail, new_versions, mta) ==
    \/ fail.stage = "revision"
    \/ /\ fail.stage = "version"
       /\ fail.written \subseteq {new_versions[i].object_id : i \in 1..Len(new_versions)}
       /\ Cardinality(fail.written) < Len(new_versions)
    \/ /\ fail.stage = "meta"
       /\ fail.n < Len(mta)

\* The writes of save_revision: Revision.objects.create, version.save() for
\* each new version, cls._default_manager.create for each metadata class.
\* Every write is committed as it is made.
Persist(st, m, usr, cmt, mta, new_versions, fail) ==
    LET id == Len(st.revisions) + 1
        withRevision == [st EXCEPT !.revisions = Append(@, [manager_slug |-> m, user |-> usr, comment |-> cmt])]
        row(v) == [revision |-> id, object_id |-> v.object_id, content_type |-> v.content_type,
                   serialized_data |-> v.serialized_data, type |-> v.type]
        allRows == [i \in 1..Len(new_versions) |-> row(new_versions[i])]
        someRows == SelectSeq(allRows, LAMBDA r : r.object_id \in fail.written)
        metaRows(k) == [i \in 1..k |-> [revision |-> id, cls |-> mta[i]]]
    IN  IF ~FailureApplies(fail, new_versions, mta)
            THEN [store |-> [withRevision EXCEPT !.versions = @ \o allRows,
                                                 !.metas = @ \o metaRows(Len(mta))],
                  err |-> NoError]
        ELSE IF fail.stage = "revision" THEN [store |-> st, err |-> DatabaseError]
        ELSE IF fail.stage = "version"
            THEN [store |-> [withRevision EXCEPT !.versions = @ \o someRows], err |-> DatabaseError]
        ELSE [store |-> [withRevision EXCEPT !.versions = @ \o allRows,
                                             !.metas = @ \o metaRows(fail.n)],
              err |-> DatabaseError]

\* RevisionManager.save_revision, objects given as a dict.
SaveRevision(st, m, objs, ign, usr, cmt, mta, fail) ==
    IF DOMAIN objs = {} THEN [store |-> st, err |-> NoError]
    ELSE LET followed == FollowRelationships(m, objs)
             new_versions == NewVersions(followed.result)
         IN  IF followed.err # NoError THEN [store |-> st, err |-> followed.err]
             ELSE IF ign /\ new_versions = <<>> THEN [store |-> st, err |-> TypeError]
             ELSE IF ~ShouldSave(st, new_versions, ign) THEN [store |-> st, err |-> NoError]
             ELSE Persist(st, m, usr, cmt, mta, new_versions, fail)

\* The failures a save_revision call on these objects can meet.
FailuresOf(m, objs, mta) ==
    LET followed == FollowRelationships(m, objs)
        new_versions == IF followed.err # NoError THEN <<>> ELSE NewVersions(followed.result)
    IN  {fail \in Failures : fail = NoFailure \/ FailureApplies(fail, new_versions, mta)}

\* The list form of the objects argument: every object is adapted to its
\* current snapshot, tagged CHANGE.
AdaptObjects(objs) == [o \in objs |-> GetVersionData(o, VERSION_CHANGE)]

(***************************************************************************)
(* RevisionContextManager.                                                 *)
(***************************************************************************)
Store == [revisions |-> revisions, versions |-> versions, metas |-> metas]

\* RevisionContextManager.clear
Clear ==
    /\ objects' = EmptyDict
    /\ user' = "None"
    /\ comment' = ""
    /\ depth' = 0
    /\ is_invalid' = FALSE
    /\ meta' = <<>>
    /\ ignore_duplicates' = FALSE

\* RevisionContextManager.is_active
IsActive(d) == d > 0

\* _assert_active that never raises.
AssertActiveRaises_Never(d) == FALSE

\* RevisionContextManager._assert_active: TRUE when it raises.
AssertActiveRaises(d) == ~IsActive(d)

\* What a call leaves in err: Ok when it returned, else its name and its error.
Ok == [op |-> "", error |-> NoError]

Raised(op, error) == IF error = NoError THEN Ok ELSE [op |-> op, error |-> error]

\* A context-scoped call op made while no revision is active.
RaiseNotActive(op) ==
    /\ err' = Raised(op, RevisionManagementError)
    /\ saved' = <<>>
    /\ UNCHANGED <<ctxVars, storeVars, restVars, db, references, revert, recorded>>

\* RevisionContextManager.start
Start ==
    /\ depth < MaxDepth
    /\ depth' = depth + 1
    /\ err' = Ok
    /\ saved' = <<>>
    /\ UNCHANGED <<is_invalid, objects, user, comment, meta, ignore_duplicates,
                   storeVars, restVars, db, references, revert, recorded>>

\* end() flushing at every depth.
IsOutermost_AnyDepth(d) == d >= 0

\* end(): "if self._depth == 0", on the decremented depth.
IsOutermost(d) == d = 0

\* end() saving whatever the invalid flag says.
SavesOnEnd_IgnoringInvalid(invalid) == TRUE

\* end(): "if not self.is_invalid()".
SavesOnEnd(invalid) == ~invalid

\* end(): the arguments it hands to manager.save_revision besides the
\* manager's objects and ignore_duplicates; user, comment and meta are left
\* to save_revision's defaults.
EndSaveArgs(usr, cmt, mta) == [user |-> "None", comment |-> "", meta |-> <<>>]

\* The record of one save_revision call: its manager, the objects and the
\* ignore_duplicates flag and the metadata it was given, and whether it created a Revision row.
Called(m, objs, ign, mta, before, after) ==
    [manager |-> m, objects |-> objs, ignore_duplicates |-> ign, meta |-> mta,
     created |-> Len(after.revisions) > Len(before.revisions)]

\* end(): the loop over self._objects, in the order the dict yields the
\* managers; it stops at the first save_revision that raises.
\* acc = [store, err, called].
RECURSIVE SaveEach(_, _, _)
SaveEach(order, fails, acc) ==
    IF order = <<>> \/ acc.err # NoError THEN acc
    ELSE LET m == Head(order)
             args == EndSaveArgs(user, comment, meta)
             r == SaveRevision(acc.store, m, objects[m], ignore_duplicates,
                               args.user, args.comment, args.meta, fails[m])
         IN  SaveEach(Tail(order), fails,
                      [store |-> r.store, err |-> r.err,
                       called |-> Append(acc.called,
                                         Called(m, DOMAIN objects[m], ignore_duplicates, args.meta, acc.store, r.store))])

\* end() clearing only when save_revision returned normally.
ClearsOnEnd_OnlyOnSuccess(raised) == ~raised

\* end(): the "finally: self.clear()" of the outermost end; raised tells
\* whether save_revision raised.
ClearsOnEnd(raised) == TRUE

\* The body of end() in a context whose invalid flag is invalid, called
\* while the error pending is propagating (Ok when none is): an error of
\* save_revision replaces it.
EndCall(invalid, pending) ==
    IF AssertActiveRaises(depth)
    THEN /\ err' = Raised("end", RevisionManagementError)
         /\ saved' = <<>>
         /\ UNCHANGED <<ctxVars, storeVars, db, references, revert, recorded>>
    ELSE IF ~IsOutermost(depth - 1)
        THEN /\ depth' = depth - 1
             /\ is_invalid' = invalid
             /\ err' = pending
             /\ saved' = <<>>
             /\ UNCHANGED <<objects, user, comment, meta, ignore_duplicates,
                            storeVars, db, references, revert, recorded>>
        ELSE \E order \in Orders(DOMAIN objects), fails \in [DOMAIN objects -> Failures] :
                LET start == [store |-> Store, err |-> NoError, called |-> <<>>]
                    r == IF SavesOnEnd(invalid) THEN SaveEach(order, fails, start) ELSE start
                IN  /\ \A m \in DOMAIN objects :
                        /\ fails[m] = NoFailure \/ SavesOnEnd(invalid)
                        /\ fails[m] \in FailuresOf(m, objects[m], EndSaveArgs(user, comment, meta).meta)
                    /\ Len(r.store.revisions) <= MaxRevisions
                    /\ revisions' = r.store.revisions
                    /\ versions' = r.store.versions
                    /\ metas' = r.store.metas
                    /\ err' = IF r.err # NoError THEN Raised("end", r.err) ELSE pending
                    /\ saved' = r.called
                    /\ IF ClearsOnEnd(r.err # NoError)
                          THEN Clear
                          ELSE /\ depth' = depth - 1
                               /\ is_invalid' = invalid
                               /\ UNCHANGED <<objects, user, comment, meta, ignore_duplicates>>
                    /\ recorded' = FALSE
                    /\ UNCHANGED <<db, references, revert>>

\* RevisionContextManager.end
End == EndCall(is_invalid, Ok) /\ UNCHANGED restVars

\* RevisionContextManager.invalidate
Invalidate ==
    IF AssertActiveRaises(depth) THEN RaiseNotActive("invalidate")
    ELSE /\ is_invalid' = TRUE
         /\ err' = Ok
         /\ saved' = <<>>
         /\ UNCHANGED <<depth, objects, user, comment, meta, ignore_duplicates,
                        storeVars, restVars, db, references, revert, recorded>>

\* add_to_context replacing the manager's dict by one holding the object alone.
WithObject_Replacing(objs, m, o, version_data) == (m :> (o :> version_data)) @@ objs

\* add_to_context: the manager's dict is created on first use, then the
\* object's entry is set.
WithObject(objs, m, o, version_data) ==
    LET manager_context == IF m \in DOMAIN objs THEN objs[m] ELSE EmptyDict
    IN  (m :> ((o :> version_data) @@ manager_context)) @@ objs

\* RevisionContextManager.add_to_context
AddToContext(m, o, version_data) ==
    IF AssertActiveRaises(depth) THEN RaiseNotActive("add_to_context")
    ELSE /\ objects' = WithObject(objects, m, o, version_data)
         /\ err' = Ok
         /\ saved' = <<>>
         /\ UNCHANGED <<depth, is_invalid, user, comment, meta, ignore_duplicates,
                        storeVars, restVars, db, references, revert>>
         /\ recorded' = TRUE

\* RevisionContextManager.set_user
SetUser(u) ==
    IF AssertActiveRaises(depth) THEN RaiseNotActive("set_user")
    ELSE /\ user' = u
         /\ err' = Ok
         /\ saved' = <<>>
         /\ UNCHANGED <<depth, is_invalid, objects, comment, meta, ignore_duplicates,
                        storeVars, restVars, db, references, revert, recorded>>

\* RevisionContextManager.set_comment
SetComment(c) ==
    IF AssertActiveRaises(depth) THEN RaiseNotActive("set_comment")
    ELSE /\ comment' = c
         /\ err' = Ok
         /\ saved' = <<>>
         /\ UNCHANGED <<depth, is_invalid, objects, user, meta, ignore_duplicates,
                        storeVars, restVars, db, references, revert, recorded>>

\* RevisionContextManager.add_meta
AddMeta(cls) ==
    IF AssertActiveRaises(depth) THEN RaiseNotActive("add_meta")
    ELSE /\ Len(meta) < MaxMeta
         /\ meta' = Append(meta, cls)
         /\ err' = Ok
         /\ saved' = <<>>
         /\ UNCHANGED <<depth, is_invalid, objects, user, comment, ignore_duplicates,
                        storeVars, restVars, db, references, revert, recorded>>

\* RevisionContextManager.set_ignore_duplicates
SetIgnoreDuplicates(b) ==
    IF AssertActiveRaises(depth) THEN RaiseNotActive("set_ignore_duplicates")
    ELSE /\ ignore_duplicates' = b
         /\ err' = Ok
         /\ saved' = <<>>
         /\ UNCHANGED <<depth, is_invalid, objects, user, comment, meta,
                        storeVars, restVars, db, references, revert, recorded>>

\* No safe_revert call is under way.
NoRevert ==
    [pc |-> "idle", batch |-> <<>>, before |-> <<>>, versions |-> <<>>, i |-> 0,
     unreverted_versions |-> <<>>, reverted |-> {}, delete |-> FALSE,
     passes |-> 0, attempts |-> 0]

\* No call has returned a value.
NoReturn == [op |-> "", value |-> "None"]

\* The threads of the process and the requests it serves.
Threads == {1, 2}
Requests == {1, 2}

\* RevisionContextManager.clear: the attributes a thread finds when it first
\* uses the context manager.
DefaultContext ==
    [depth |-> 0, is_invalid |-> FALSE, objects |-> EmptyDict, user |-> "None", comment |-> "",
     meta |-> <<>>, ignore_duplicates |-> FALSE, recorded |-> FALSE]

\* A request the handler has not begun: entry is the depth of the context
\* when process_request ran, raised whether the view raised.
NewRequest == [pc |-> "new", entry |-> 0, raised |-> FALSE]

\* Thread 1 is running, no other thread has used the context manager, and no
\* request carries the middleware flag.
InitHost ==
    /\ thread = 1
    /\ local_dicts = [t \in Threads \ {1} |-> DefaultContext]
    /\ request_meta = [r \in Requests |-> FALSE]
    /\ requests = [r \in Requests |-> NewRequest]

\* The managers "default" and "other" exist and have their receivers
\* connected for every model; object 1 is an A that follows its foreign key
\* to object 2, a B; no revision block is open.
InitRest ==
    /\ connected = [m \in Managers |-> Models]
    /\ created_managers = [m \in Managers |-> IF m = "default" THEN 1 ELSE 2]
    /\ follow = [o \in Objects |-> IF o = 1 THEN <<2>> ELSE <<>>]
    /\ instance_model = [o \in Objects |-> IF o = 1 THEN "A" ELSE "B"]
    /\ returned = NoReturn
    /\ scopes = <<>>
    /\ InitHost

(***************************************************************************)
(* The revision context of one thread, driven through its low-level API.   *)
(***************************************************************************)
Init ==
    /\ depth = 0
    /\ is_invalid = FALSE
    /\ objects = EmptyDict
    /\ user = "None"
    /\ comment = ""
    /\ meta = <<>>
    /\ ignore_duplicates = FALSE
    /\ registered_models = [m \in Managers |-> Models]
    /\ InitRest
    /\ revisions = <<>>
    /\ versions = <<>>
    /\ metas = <<>>
    /\ db = [o \in Objects |-> Row(0)]
    /\ references = [o \in Objects |-> 0]
    /\ revert = NoRevert
    /\ err = Ok
    /\ saved = <<>>
    /\ recorded = FALSE

\* The record calls made on the context: <<manager, object, change type>>.
RecordInputs ==
    {<<"default", 1, VERSION_ADD>>, <<"default", 2, VERSION_CHANGE>>, <<"other", 2, VERSION_DELETE>>}

Record == \E in \in RecordInputs : AddToContext(in[1], in[2], GetVersionData(in[2], in[3]))

Next ==
    \/ Start
    \/ End
    \/ Invalidate
    \/ Record
    \/ \E u \in Users : SetUser(u)
    \/ \E c \in Comments : SetComment(c)
    \/ \E cls \in MetaClasses : AddMeta(cls)
    \/ \E b \in BOOLEAN : SetIgnoreDuplicates(b)

Spec == Init /\ [][Next]_vars

(***************************************************************************)
(* save_revision called directly on a manager, outside any revision        *)
(* context, between writes to the versioned objects.                       *)
(***************************************************************************)
\* The managers whose receivers are connected for the model of o.
Receivers(o) == Enumerate({m \in DOMAIN connected : ModelOf(o) \in connected[m]})

\* A post_save receiver that tags every snapshot CHANGE.
PostSaveReceiver_AlwaysChange(objs, m, o, v, created) ==
    IF IsActive(depth) /\ IsRegistered(m, ModelOf(o))
    THEN WithObject(objs, m, o, VersionData(o, v, VERSION_CHANGE))
    ELSE objs

\* RevisionManager._post_save_receiver of manager m for a saved instance.
PostSaveReceiver(objs, m, o, v, created) ==
    IF IsActive(depth) /\ IsRegistered(m, ModelOf(o))
    THEN WithObject(objs, m, o, VersionData(o, v, IF created THEN VERSION_ADD ELSE VERSION_CHANGE))
    ELSE objs

RECURSIVE NotifyPostSave(_, _, _, _, _)
NotifyPostSave(objs, receivers, o, v, created) ==
    IF receivers = <<>> THEN objs
    ELSE NotifyPostSave(PostSaveReceiver(objs, Head(receivers), o, v, created),
                        Tail(receivers), o, v, created)

\* instance.save() of a versioned object: the row is written, then post_save
\* is sent to the receiver of every manager.
ModelSave(o, v) ==
    /\ db' = [db EXCEPT ![o] = Row(v)]
    /\ objects' = NotifyPostSave(objects, Receivers(o), o, v, ~db[o].live)
    /\ recorded' = (recorded \/ objects' # objects)
    /\ err' = Ok
    /\ saved' = <<>>
    /\ UNCHANGED <<depth, is_invalid, user, comment, meta, ignore_duplicates,
                   storeVars, restVars, references, revert>>

\* manager.save_revision(objects, ignore_duplicates, user, comment, meta),
\* objects given as a list.
SaveRevisionCall(m, objs, ign, usr, cmt, mta, fail) ==
    LET r == SaveRevision(Store, m, AdaptObjects(objs), ign, usr, cmt, mta, fail)
    IN  /\ fail \in FailuresOf(m, AdaptObjects(objs), mta)
        /\ Len(r.store.revisions) <= MaxRevisions
        /\ revisions' = r.store.revisions
        /\ versions' = r.store.versions
        /\ metas' = r.store.metas
        /\ err' = Raised("save_revision", r.err)
        /\ saved' = <<Called(m, objs, ign, mta, Store, r.store)>>
        /\ UNCHANGED <<ctxVars, restVars, db, references, revert, recorded>>

\* The arguments of the direct calls.
SaveManagers == {"default"}
SaveUsers == {"alice"}
SaveComments == {"edited"}
SaveMetas == {<<cls>> : cls \in MetaClasses}
SaveObjects == {{}, {1}, {2}}
ModifiedObjects == {2}

NextSave ==
    \/ \E m \in SaveManagers, objs \in SaveObjects, ign \in BOOLEAN, usr \in SaveUsers,
          cmt \in SaveComments, mta \in SaveMetas, fail \in Failures :
            SaveRevisionCall(m, objs, ign, usr, cmt, mta, fail)
    \/ \E o \in ModifiedObjects, v \in Vals : ModelSave(o, v)

SpecSave == Init /\ [][NextSave]_vars

(***************************************************************************)
(* Properties of the revision context.                                     *)
(***************************************************************************)
IsDefault ==
    /\ objects = EmptyDict
    /\ user = "None"
    /\ comment = ""
    /\ meta = <<>>
    /\ is_invalid = FALSE
    /\ ignore_duplicates = FALSE

\* A step of end(): it is the one call that lowers the depth, and the one
\* that raises under this name.
EndStep == depth' < depth \/ (err'.op = "end" /\ err' # err)

\* C1: an end() call invokes a manager's save_revision if and only if it
\* brings the depth from 1 to 0, the context is not invalid and an object was
\* recorded since the context left Idle; any other end() invokes none and
\* leaves the store as it was.
C1_EndPersistsIffOutermostValidRecorded ==
    [][EndStep => /\ (saved' # <<>>) <=> (depth = 1 /\ ~is_invalid /\ recorded)
                  /\ saved' = <<>> => UNCHANGED storeVars]_vars

\* An outermost end() has called save_revision and a Revision row exists.
C1_Witness == depth = 0 /\ saved # <<>> /\ err = Ok /\ revisions # <<>>

\* C2: once the context is invalid it stays invalid while it is Active,
\* start(), end() and record keep adjusting the depth and the pending objects,
\* no call persists anything, and invalidate() leaves the depth alone.
C2_InvalidIsSticky ==
    [][/\ is_invalid /\ depth' > 0 => is_invalid'
       /\ is_invalid => saved' = <<>> /\ UNCHANGED storeVars
       /\ is_invalid /\ Start => depth' = depth + 1
       /\ is_invalid /\ EndStep => depth' = depth - 1
       /\ \A in \in RecordInputs :
            is_invalid /\ AddToContext(in[1], in[2], GetVersionData(in[2], in[3]))
                => /\ in[1] \in DOMAIN objects'
                   /\ in[2] \in DOMAIN objects'[in[1]]
                   /\ objects'[in[1]][in[2]] = GetVersionData(in[2], in[3])
                   /\ depth' = depth
       /\ Invalidate => depth' = depth]_vars

\* An invalid context with recorded objects whose outermost end() is due.
C2_Witness == is_invalid /\ recorded /\ depth = 1 /\ objects # EmptyDict

\* C3: whenever the context is Idle every field holds its default, also
\* after an outermost end() whose save_revision raised.
C3_IdleIsDefault == depth = 0 => IsDefault

\* An outermost end() whose save_revision raised, the error handed to the caller.
C3_Witness ==
    /\ depth = 0
    /\ saved # <<>>
    /\ err = [op |-> "end", error |-> DatabaseError]

\* C4: the depth is never negative, and end() at depth 0 raises the
\* management error and changes neither the context nor the store.
C4_DepthNeverNegative ==
    /\ [](depth >= 0)
    /\ [][depth = 0 /\ EndStep =>
            /\ err' = [op |-> "end", error |-> RevisionManagementError]
            /\ UNCHANGED <<ctxVars, storeVars, recorded>>]_vars

\* end() was called at depth 0.
C4_Witness == depth = 0 /\ err = [op |-> "end", error |-> RevisionManagementError]

\* C6: the Revision an outermost end() creates carries the user and comment
\* of the context and one metadata row per add_meta call.
C6_EndFlushesUserCommentMeta ==
    [][EndStep => \A id \in (Len(revisions) + 1)..Len(revisions') :
                /\ revisions'[id].user = user
                /\ revisions'[id].comment = comment
                /\ Len(SelectSeq(metas', LAMBDA row : row.revision = id)) = Len(meta)]_vars

(***************************************************************************)
(* Properties of save_revision.                                            *)
(***************************************************************************)
\* A step that is a direct save_revision call, and its arguments.
SaveRevisionStep == saved' # <<>> /\ depth = 0

NewRevisions == (Len(revisions) + 1)..Len(revisions')

\* The (object type, key) pairs and the payloads of the candidate set of a
\* save_revision call on objs.
Candidate(m, objs) == NewVersions(FollowRelationships(m, AdaptObjects(objs)).result)

CandidateKeys(m, objs) ==
    {<<Candidate(m, objs)[i].content_type, Candidate(m, objs)[i].object_id>> :
        i \in 1..Len(Candidate(m, objs))}

\* C5: a save_revision call that raises leaves no row of its own in the
\* store; one that creates a Revision has all its Version and metadata rows.
C5_SaveRevisionAllOrNothing ==
    [][SaveRevisionStep =>
        /\ err' # Ok => UNCHANGED storeVars
        /\ err' = Ok => \A id \in NewRevisions :
                /\ Len(SelectSeq(versions', LAMBDA v : v.revision = id))
                        = Len(Candidate(saved'[1].manager, saved'[1].objects))
                /\ Len(SelectSeq(metas', LAMBDA row : row.revision = id))
                        = Len(saved'[1].meta)]_vars

\* The revisions stored before the call that hold a version of one of keys.
PriorSharing(keys) ==
    {versions[i].revision : i \in {j \in 1..Len(versions) :
        <<versions[j].content_type, versions[j].object_id>> \in keys}}

Count(seq, x) == Cardinality({i \in 1..Len(seq) : seq[i] = x})

\* The candidate repeats the most recent prior revision sharing a key with
\* it: as many versions, and the same payloads.
RepeatsLatest(m, objs) ==
    LET prior == PriorSharing(CandidateKeys(m, objs))
        latest == Max(prior)
        before == MapSeq(SelectSeq(versions, LAMBDA v : v.revision = latest), "serialized_data")
        now == MapSeq(Candidate(m, objs), "serialized_data")
    IN  /\ prior # {}
        /\ Len(before) = Len(now)
        /\ \A p \in {before[i] : i \in 1..Len(before)} \cup {now[i] : i \in 1..Len(now)} :
                Count(before, p) = Count(now, p)

\* The outcome the duplicate rule gives a call: nothing is written when the
\* call is told to ignore duplicates and repeats the latest revision, and
\* exactly one Revision is created otherwise.
DuplicateRule(call) ==
    IF call.ignore_duplicates /\ RepeatsLatest(call.manager, call.objects)
    THEN UNCHANGED storeVars
    ELSE Len(revisions') = Len(revisions) + 1

Targets == Objects \cup {0, -1}

\* The value a version of the batch restores.
RestoredVal == Max(Vals)

\* The Version of object o held in a batch.
VersionOf(o) == [object_id |-> o, serialized_data |-> Serialize(o, RestoredVal)]

\* Version.revert: object_version.save() writes the deserialized row; the
\* store raises the integrity error when the row it references is missing.
VersionRevert(d, version) ==
    LET object_version == Deserialize(version.serialized_data)
        target == references[object_version.obj]
    IN  [db |-> [d EXCEPT ![object_version.obj] = Row(object_version.val)],
         err |-> IF target = 0 THEN NoError
                 ELSE IF target \in Objects /\ d[target].live THEN NoError
                 ELSE IntegrityError]

\* An atomic block that commits whatever its body wrote.
Atomic_NoRollback(before, after, error) == after

\* transaction.atomic(): the writes of the block are kept when it ends
\* normally and rolled back when it raises.
Atomic(before, after, error) == IF error = NoError THEN after ELSE before

\* A safe_revert that defers a version whatever error its revert raises.
IsDeferred_AnyError(error) == error # NoError

\* safe_revert: "except (IntegrityError, ObjectDoesNotExist)".
IsDeferred(error) == error \in {IntegrityError, ObjectDoesNotExist}

\* A safe_revert that retries the deferred versions whether or not the pass
\* reverted any of them.
PassMadeNoProgress_Never(unreverted_versions, vs) == FALSE

\* safe_revert: "if len(unreverted_versions) == len(versions)".
PassMadeNoProgress(unreverted_versions, vs) == Len(unreverted_versions) = Len(vs)

\* safe_revert is entered with the batch, or recursively with the deferred versions.
SafeRevertEnter(vs) ==
    [revert EXCEPT !.pc = "loop", !.versions = vs, !.i = 1, !.unreverted_versions = <<>>]

\* One iteration of "for version in versions", in which version.revert()
\* meets fault (NoError: none but what the store itself raises).  An error
\* that is not deferred leaves the loop and safe_revert.  The call counts the
\* passes that attempt a version and the attempts.
RevertOneWith(fault) ==
    /\ revert.pc = "loop"
    /\ revert.i <= Len(revert.versions)
    /\ LET version == revert.versions[revert.i]
           stored == VersionRevert(db, version)
           r == IF fault = NoError THEN stored ELSE [db |-> stored.db, err |-> fault]
           counted == [revert EXCEPT !.attempts = @ + 1,
                                     !.passes = IF revert.i = 1 THEN @ + 1 ELSE @]
       IN  /\ db' = Atomic(db, r.db, r.err)
           /\ IF r.err = NoError \/ IsDeferred(r.err)
              THEN /\ revert' = [counted EXCEPT
                        !.i = @ + 1,
                        !.unreverted_versions = IF IsDeferred(r.err) THEN Append(@, version) ELSE @,
                        !.reverted = IF r.err = NoError THEN @ \cup {version.object_id} ELSE @]
                   /\ err' = Ok
              ELSE /\ revert' = [counted EXCEPT !.pc = "aborted"]
                   /\ err' = Raised("safe_revert", r.err)
    /\ saved' = <<>>
    /\ UNCHANGED <<ctxVars, storeVars, restVars, references, recorded>>

\* One iteration in which nothing fails but the store.
RevertOne == RevertOneWith(NoError)

\* After the loop: raise, recurse on the deferred versions, or return.
RevertCheck ==
    /\ revert.pc = "loop"
    /\ revert.i > Len(revert.versions)
    /\ IF PassMadeNoProgress(revert.unreverted_versions, revert.versions)
       THEN /\ revert' = [revert EXCEPT !.pc = "raised"]
            /\ err' = Raised("safe_revert", RevertError)
       ELSE IF revert.unreverted_versions # <<>>
       THEN /\ revert' = SafeRevertEnter(revert.unreverted_versions)
            /\ err' = Ok
       ELSE /\ revert' = [revert EXCEPT !.pc = "done"]
            /\ err' = Ok
    /\ saved' = <<>>
    /\ UNCHANGED <<ctxVars, storeVars, restVars, db, references, recorded>>

\* The batches: the versions of some of the objects, in some order.
Batches == UNION {Orders(S) : S \in SUBSET Objects}

\* safe_revert is called on a batch, on a store holding some of the rows
\* under some foreign keys.
InitRevert ==
    /\ depth = 0
    /\ is_invalid = FALSE
    /\ objects = EmptyDict
    /\ user = "None"
    /\ comment = ""
    /\ meta = <<>>
    /\ ignore_duplicates = FALSE
    /\ registered_models = [m \in Managers |-> Models]
    /\ InitRest
    /\ revisions = <<>>
    /\ versions = <<>>
    /\ metas = <<>>
    /\ db \in [Objects -> {Absent, Row(Min(Vals))}]
    /\ references \in {f \in [Objects -> Targets] : \A o \in Objects : f[o] # o}
    /\ \E order \in Batches :
         revert = [pc |-> "loop", batch |-> [i \in 1..Len(order) |-> VersionOf(order[i])],
                   before |-> db, versions |-> [i \in 1..Len(order) |-> VersionOf(order[i])],
                   i |-> 1, unreverted_versions |-> <<>>, reverted |-> {}, delete |-> FALSE,
                   passes |-> 0, attempts |-> 0]
    /\ err = Ok
    /\ saved = <<>>
    /\ recorded = FALSE

NextRevert == RevertOne \/ RevertCheck

SpecRevert == InitRevert /\ [][NextRevert]_vars

(***************************************************************************)
(* Properties of safe_revert.                                              *)
(***************************************************************************)
BatchObjects == {revert.batch[i].object_id : i \in 1..Len(revert.batch)}

Returned == revert.pc = "done"

RaisedRevertError == revert.pc = "raised"

AllRestored == \A o \in BatchObjects : db[o] = Row(RestoredVal)

\* The foreign key of o can be satisfied: it references nothing, a row that
\* was stored before the call, or a version of the batch that can itself be
\* satisfied along a chain of at most n references.
RECURSIVE Satisfiable(_, _)
Satisfiable(o, n) ==
    \/ references[o] = 0
    \/ /\ references[o] \in Objects
       /\ \/ revert.before[references[o]].live
          \/ /\ references[o] \in BatchObjects
             /\ n > 0
             /\ Satisfiable(references[o], n - 1)

\* The dependencies of the batch are acyclic and satisfiable within it.
Resolvable == \A o \in BatchObjects : Satisfiable(o, NumObjects)

\* C8 as stated: on every resolvable batch, in every order, safe_revert
\* returns with every version restored.
C8_ResolvableBatchReverts ==
    Resolvable /\ (Returned \/ RaisedRevertError) => Returned /\ AllRestored

\* On every non-empty resolvable batch, in every order, safe_revert returns
\* with every version restored.
C8_NonEmptyResolvableBatchReverts ==
    Resolvable /\ revert.batch # <<>> /\ (Returned \/ RaisedRevertError)
        => Returned /\ AllRestored

\* C9: safe_revert raises the revert error only after a pass that reverted
\* none of its versions and left at least one of them un-reverted.
C9_RevertErrorOnlyWithoutProgress ==
    RaisedRevertError =>
        /\ revert.unreverted_versions = revert.versions
        /\ revert.unreverted_versions # <<>>

\* C10: a failed revert changes no row, and neither a failed revert nor the
\* revert error undoes a version the call has already reverted.
C10_EachVersionInItsOwnAtomicUnit ==
    [][/\ Len(revert'.unreverted_versions) > Len(revert.unreverted_versions) => db' = db
       /\ revert'.pc = "raised" => db' = db
       /\ \A o \in revert.reverted : db'[o] = Row(RestoredVal)]_vars

\* safe_revert raised the revert error after it had reverted a version and
\* had deferred another whose row was not stored before.
C10_Witness ==
    /\ RaisedRevertError
    /\ revert.reverted # {}
    /\ \E o \in BatchObjects \ revert.reverted : ~revert.before[o].live /\ ~db[o].live
    /\ \A o \in revert.reverted : db[o] = Row(RestoredVal)

(***************************************************************************)
(* Revision.revert (src/src/reversion/models.py): the versions of a stored *)
(* revision are reverted, with or without the deletion of the objects that *)
(* joined its relationship closure since.                                  *)
(***************************************************************************)
\* self.version_set.all()
VersionSet(id) == SelectSeq(versions, LAMBDA v : v.revision = id)

\* old_revision: the live instances "version.object" resolves to.
OldRevision(version_set) ==
    {version_set[i].object_id : i \in {j \in 1..Len(version_set) : db[version_set[j].object_id].live}}

\* "RevisionManager.get_manager(self.manager_slug)": the class has no such
\* attribute, so the lookup raises before the closure is computed.
GetManager(slug) == [manager |-> slug, err |-> AttributeError]

\* Revision.revert(delete)
RevisionRevert(id, delete) ==
    /\ revert.pc = "idle"
    /\ LET version_set == VersionSet(id)
           lookup == IF delete THEN GetManager(revisions[id].manager_slug)
                     ELSE [manager |-> revisions[id].manager_slug, err |-> NoError]
       IN  IF lookup.err # NoError
           THEN /\ revert' = [revert EXCEPT !.pc = "failed", !.batch = version_set,
                                            !.before = db, !.delete = delete]
                /\ err' = Raised("Revision.revert", lookup.err)
           ELSE /\ revert' = [SafeRevertEnter(version_set) EXCEPT
                                    !.batch = version_set, !.before = db, !.delete = delete]
                /\ err' = Ok
    /\ saved' = <<>>
    /\ UNCHANGED <<ctxVars, storeVars, restVars, db, references, recorded>>

\* The values of the rows before the revert, and the value the revision holds.
CurrentVal == Min(Vals)

\* The version sets of the stored revision: a version of some objects, saved
\* when their rows held RestoredVal.
VersionSets ==
    {[i \in 1..Len(order) |-> [revision |-> 1, object_id |-> order[i],
                               content_type |-> IF order[i] = 1 THEN "A" ELSE "B",
                               serialized_data |-> Serialize(order[i], RestoredVal),
                               type |-> VERSION_CHANGE]] : order \in Batches \ {<<>>}}

\* A revision of the default manager is stored; since then rows were
\* changed, deleted or created.
InitRevisionRevert ==
    /\ depth = 0
    /\ is_invalid = FALSE
    /\ objects = EmptyDict
    /\ user = "None"
    /\ comment = ""
    /\ meta = <<>>
    /\ ignore_duplicates = FALSE
    /\ registered_models = [m \in Managers |-> Models]
    /\ InitRest
    /\ revisions = <<[manager_slug |-> "default", user |-> "None", comment |-> ""]>>
    /\ versions \in VersionSets
    /\ metas = <<>>
    /\ db \in [Objects -> {Absent, Row(CurrentVal)}]
    /\ references \in {f \in [Objects -> Targets] : \A o \in Objects : f[o] # o}
    /\ revert = NoRevert
    /\ err = Ok
    /\ saved = <<>>
    /\ recorded = FALSE

NextRevisionRevert ==
    \/ \E delete \in BOOLEAN : RevisionRevert(1, delete)
    \/ RevertOne
    \/ RevertCheck

SpecRevisionRevert == InitRevisionRevert /\ [][NextRevisionRevert]_vars

(***************************************************************************)
(* Properties of Revision.revert.                                          *)
(***************************************************************************)
\* The call has ended: safe_revert returned or raised, or the call raised
\* before it reached safe_revert.
RevisionRevertEnded == revert.pc \in {"done", "raised", "failed"}

\* The snapshot set of the revision, and the objects that were live in its
\* relationship closure when the call was made without being part of it.
SnapshotSet == BatchObjects

ClosureBefore ==
    LET old_revision == {o \in SnapshotSet : revert.before[o].live}
    IN  DOMAIN FollowEach("default", SetToSeq(old_revision), NoneFollowed).result

Orphans == {o \in ClosureBefore \ SnapshotSet : revert.before[o].live}

\* C11: a revert(delete=True) call reaches the reverts, and when it has
\* ended every live object of the closure that is not part of the snapshot
\* set is deleted and no object of the snapshot set is; a revert(delete=False)
\* call deletes nothing.
C11_RevertDeleteRemovesOrphans ==
    RevisionRevertEnded =>
        IF revert.delete
        THEN /\ revert.pc # "failed"
             /\ \A o \in Orphans : ~db[o].live
             /\ \A o \in SnapshotSet : revert.before[o].live => db[o].live
        ELSE \A o \in Objects : revert.before[o].live => db[o].live

\* A revert(delete=False) call deletes nothing.
C11_RevertWithoutDeleteKeepsObjects ==
    RevisionRevertEnded /\ ~revert.delete =>
        \A o \in Objects : revert.before[o].live => db[o].live

(***************************************************************************)
(* The change notifications of the versioned models, received inside and   *)
(* outside a revision.                                                     *)
(***************************************************************************)
\* RevisionManager._pre_delete_receiver of manager m for an instance about
\* to be deleted.
PreDeleteReceiver(objs, m, o) ==
    IF IsActive(depth) /\ IsRegistered(m, ModelOf(o))
    THEN WithObject(objs, m, o, GetVersionData(o, VERSION_DELETE))
    ELSE objs

RECURSIVE NotifyPreDelete(_, _, _)
NotifyPreDelete(objs, receivers, o) ==
    IF receivers = <<>> THEN objs
    ELSE NotifyPreDelete(PreDeleteReceiver(objs, Head(receivers), o), Tail(receivers), o)

\* instance.delete() of a versioned object: pre_delete is sent to the
\* receiver of every manager, then the row is removed.
ModelDelete(o) ==
    /\ db[o].live
    /\ objects' = NotifyPreDelete(objects, Receivers(o), o)
    /\ db' = [db EXCEPT ![o] = Absent]
    /\ recorded' = (recorded \/ objects' # objects)
    /\ err' = Ok
    /\ saved' = <<>>
    /\ UNCHANGED <<depth, is_invalid, user, comment, meta, ignore_duplicates,
                   storeVars, restVars, references, revert>>

\* The instances that are saved and deleted.
SignalObjects == {2}

RecordObjects == {1, 2}

\* A snapshot recorded by hand with one manager.
RecordChange(m, o) == AddToContext(m, o, GetVersionData(o, VERSION_CHANGE))

NextSignals ==
    \/ Start
    \/ End
    \/ \E o \in RecordObjects : RecordChange("default", o)
    \/ \E o \in SignalObjects, v \in Vals : ModelSave(o, v)
    \/ \E o \in SignalObjects : ModelDelete(o)

SpecSignals == Init /\ [][NextSignals]_vars

(***************************************************************************)
(* Properties of the change handling and of the pending objects.           *)
(***************************************************************************)
\* Every manager holds data as its pending entry of o after the step.
HoldsSnapshot(o, data) ==
    \A m \in Managers :
        /\ m \in DOMAIN objects'
        /\ o \in DOMAIN objects'[m]
        /\ objects'[m][o] = data

\* C12: while the context is Active a post-save notification records a
\* snapshot tagged ADD for a created object and CHANGE for an updated one, and
\* a pre-delete notification records a snapshot tagged DELETE that holds the
\* row about to be removed; while it is Idle a notification records nothing
\* and leaves the context as it was.
C12_ReceiversRecordTaggedSnapshots ==
    [][\A o \in SignalObjects :
        /\ \A v \in Vals :
            ModelSave(o, v) =>
                IF depth > 0
                THEN HoldsSnapshot(o, VersionData(o, v, IF db[o].live THEN VERSION_CHANGE
                                                        ELSE VERSION_ADD))
                ELSE UNCHANGED ctxVars
        /\ ModelDelete(o) =>
                IF depth > 0
                THEN /\ HoldsSnapshot(o, VersionData(o, db[o].val, VERSION_DELETE))
                     /\ ~db'[o].live
                ELSE UNCHANGED ctxVars]_vars

\* An object was deleted inside a revision: its DELETE snapshot is pending
\* and its row is gone.
C12_Witness ==
    /\ depth > 0
    /\ "default" \in DOMAIN objects
    /\ 2 \in DOMAIN objects["default"]
    /\ objects["default"][2].type = VERSION_DELETE
    /\ ~db[2].live

\* The snapshots a record call can be given for o.
Snapshots(o) == {VersionData(o, v, t) : v \in Vals, t \in {VERSION_ADD, VERSION_CHANGE, VERSION_DELETE}}

\* C13: a record call in an Active context leaves exactly the entry it was
\* given for its object under its manager, whether or not the object had an
\* entry, and changes no entry of another object or of another manager.
C13_RecordKeepsLatestSnapshot ==
    [][\A m \in Managers, o \in Objects :
        \A data \in Snapshots(o) :
            depth > 0 /\ AddToContext(m, o, data) =>
                /\ DOMAIN objects' = DOMAIN objects \cup {m}
                /\ DOMAIN objects'[m] = (IF m \in DOMAIN objects THEN DOMAIN objects[m] ELSE {}) \cup {o}
                /\ objects'[m][o] = data
                /\ \A o2 \in DOMAIN objects'[m] \ {o} : objects'[m][o2] = objects[m][o2]
                /\ \A m2 \in DOMAIN objects' \ {m} : objects'[m2] = objects[m2]]_vars

\* Object 2 was created inside the revision, which recorded it as ADD under
\* both managers, and was then recorded by hand under "default": that entry
\* now holds the later CHANGE snapshot, while the entry of object 1 and the
\* entry under "other" are as they were.
C13_Witness ==
    /\ depth > 0
    /\ DOMAIN objects = Managers
    /\ DOMAIN objects["default"] = {1, 2}
    /\ DOMAIN objects["other"] = {2}
    /\ objects["other"][2].type = VERSION_ADD
    /\ objects["default"][2] = [objects["other"][2] EXCEPT !.type = VERSION_CHANGE]

(***************************************************************************)
(* _follow_relationships applied to the pending objects of a manager, over *)
(* every relation graph of the instances.                                  *)
(***************************************************************************)
\* The lists a followed relation can resolve to.
FollowLists == {SetToSeq(S) : S \in SUBSET Objects}

\* The pending objects handed to the closure: for some of the objects, the
\* value and the tag they were recorded with.
ObjectDicts ==
    UNION {[S -> [val : Vals, type : {VERSION_ADD, VERSION_DELETE}]] : S \in SUBSET Objects}

\* The recorded snapshots those entries stand for.
Recorded(object_dict) ==
    [o \in DOMAIN object_dict |-> VersionData(o, object_dict[o].val, object_dict[o].type)]

\* The instances are related in any way; instance 1 is an A, every other one
\* a B or an instance of B's proxy model.
InitFollow ==
    /\ depth = 0
    /\ is_invalid = FALSE
    /\ objects = EmptyDict
    /\ user = "None"
    /\ comment = ""
    /\ meta = <<>>
    /\ ignore_duplicates = FALSE
    /\ registered_models = [m \in Managers |-> Models]
    /\ connected = [m \in Managers |-> Models]
    /\ created_managers = [m \in Managers |-> IF m = "default" THEN 1 ELSE 2]
    /\ follow \in [Objects -> FollowLists]
    /\ instance_model \in {f \in [Objects -> Models] :
                                /\ f[1] = "A"
                                /\ \A o \in Objects \ {1} : f[o] # "A"}
    /\ returned = NoReturn
    /\ scopes = <<>>
    /\ InitHost
    /\ revisions = <<>>
    /\ versions = <<>>
    /\ metas = <<>>
    /\ db = [o \in Objects |-> Row(0)]
    /\ references = [o \in Objects |-> 0]
    /\ revert = NoRevert
    /\ err = Ok
    /\ saved = <<>>
    /\ recorded = FALSE

\* manager._follow_relationships(object_dict)
FollowCall(m, object_dict) ==
    LET r == FollowRelationships(m, object_dict)
    IN  /\ returned' = [op |-> "_follow_relationships", object_dict |-> object_dict,
                        value |-> r.result, visited |-> r.visited]
        /\ err' = Raised("_follow_relationships", r.err)
        /\ saved' = <<>>
        /\ UNCHANGED <<ctxVars, storeVars, registered_models, connected, created_managers,
                       follow, instance_model, hostVars, scopes, db, references, revert, recorded>>

NextFollow == \E object_dict \in ObjectDicts : FollowCall("default", Recorded(object_dict))

SpecFollow == InitFollow /\ [][NextFollow]_vars

(***************************************************************************)
(* Properties of the relationship closure.                                 *)
(***************************************************************************)
FollowReturned == returned.op = "_follow_relationships" /\ err = Ok

FollowRaised == returned.op = "_follow_relationships" /\ err # Ok

\* C14: in the expanded set every explicitly recorded object keeps the
\* snapshot data and the tag it was recorded with, and every object that
\* entered through a followed relation holds its current snapshot tagged CHANGE.
C14_RecordedSnapshotsOverrideClosure ==
    FollowReturned =>
        /\ \A o \in DOMAIN returned.object_dict :
                /\ o \in DOMAIN returned.value
                /\ returned.value[o] = returned.object_dict[o]
        /\ \A o \in DOMAIN returned.value \ DOMAIN returned.object_dict :
                returned.value[o] = GetVersionData(o, VERSION_CHANGE)

\* Object 1 was recorded as ADD with a value its row no longer holds, and the
\* closure brought in object 2 through a followed relation.
C14_Witness ==
    /\ FollowReturned
    /\ DOMAIN returned.object_dict = {1}
    /\ returned.object_dict[1] = VersionData(1, 1, VERSION_ADD)
    /\ returned.value[1] = VersionData(1, 1, VERSION_ADD)
    /\ 2 \in DOMAIN returned.value
    /\ returned.value[2].type = VERSION_CHANGE

\* The objects reachable from S along followed relations, in at most n steps.
RECURSIVE Reachable(_, _)
Reachable(S, n) ==
    IF n = 0 THEN S
    ELSE Reachable(S \cup UNION {{follow[o][i] : i \in 1..Len(follow[o])} : o \in S}, n - 1)

NoDuplicates(seq) == \A i, j \in 1..Len(seq) : seq[i] = seq[j] => i = j

\* The closure of a returned call holds every reachable object, computed once,
\* and the closure of its result holds the same objects.
ClosureIsExact ==
    /\ DOMAIN returned.value = Reachable(DOMAIN returned.object_dict, NumObjects)
    /\ NoDuplicates(returned.visited)
    /\ {returned.visited[i] : i \in 1..Len(returned.visited)} = DOMAIN returned.value
    /\ LET again == FollowRelationships("default", returned.value)
       IN  again.err = NoError /\ DOMAIN again.result = DOMAIN returned.value

\* C15: on every relation graph, cyclic or not, the closure returns, holds
\* every object reachable from the initial set exactly once, and applied to
\* its own result yields the same object set.
C15_ClosureHoldsEveryReachableObjectOnce ==
    returned.op = "_follow_relationships" => FollowReturned /\ ClosureIsExact

\* Whenever the closure returns it is exact; it returns on every graph that
\* reaches no instance of a proxy model.
C15_ClosureWithoutProxiesIsExact ==
    /\ FollowReturned => ClosureIsExact
    /\ FollowRaised => \E o \in Reachable(DOMAIN returned.object_dict, NumObjects) : IsProxy(o)

(***************************************************************************)
(* The context driven through all its accessors, and the guard that runs   *)
(* when a request has finished.                                            *)
(***************************************************************************)
\* A call that returns value to its caller.
Returns(op, value) ==
    /\ returned' = [op |-> op, value |-> value]
    /\ err' = Ok
    /\ saved' = <<>>
    /\ UNCHANGED <<ctxVars, storeVars, registered_models, connected, created_managers,
                   follow, instance_model, hostVars, scopes, db, references, revert, recorded>>

\* A call that raises error and changes nothing.
Raises(op, error) ==
    /\ err' = Raised(op, error)
    /\ saved' = <<>>
    /\ UNCHANGED <<ctxVars, storeVars, restVars, db, references, revert, recorded>>

\* RevisionContextManager.get_user
GetUser ==
    IF AssertActiveRaises(depth) THEN RaiseNotActive("get_user")
    ELSE Returns("get_user", user)

\* RevisionContextManager.get_comment, declared as get_comment(self, comment)
\* and called with nargs arguments: a call without the argument does not bind,
\* and the body returns the undefined name self_comment.
GetComment(nargs) ==
    IF nargs # 1 THEN Raises("get_comment", TypeError)
    ELSE IF AssertActiveRaises(depth) THEN RaiseNotActive("get_comment")
    ELSE Raises("get_comment", NameError)

\* RevisionContextManager.get_ignore_duplicates, declared as
\* get_ignore_duplicates(self, ignore_duplicates) and called with nargs arguments.
GetIgnoreDuplicates(nargs) ==
    IF nargs # 1 THEN Raises("get_ignore_duplicates", TypeError)
    ELSE IF AssertActiveRaises(depth) THEN RaiseNotActive("get_ignore_duplicates")
    ELSE Returns("get_ignore_duplicates", ignore_duplicates)

\* A request-finished guard that never raises.
RequestFinishedRaises_Never(d) == FALSE

\* _request_finished_receiver: "if self.is_active()".
RequestFinishedRaises(d) == IsActive(d)

\* RevisionContextManager._request_finished_receiver, connected to
\* request_finished when the context manager is constructed.
RequestFinishedReceiver ==
    IF RequestFinishedRaises(depth)
    THEN Raises("request_finished", RevisionManagementError)
    ELSE Raises("request_finished", NoError)

\* The numbers of arguments the getters are called with.
GetterArgs == {0, 1}

NextAccessors ==
    \/ Start
    \/ End
    \/ Invalidate
    \/ RecordChange("default", 2)
    \/ \E u \in Users : SetUser(u)
    \/ \E c \in Comments : SetComment(c)
    \/ \E cls \in MetaClasses : AddMeta(cls)
    \/ \E b \in BOOLEAN : SetIgnoreDuplicates(b)
    \/ GetUser
    \/ \E nargs \in GetterArgs : GetComment(nargs)
    \/ \E nargs \in GetterArgs : GetIgnoreDuplicates(nargs)
    \/ RequestFinishedReceiver

SpecAccessors == Init /\ [][NextAccessors]_vars

(***************************************************************************)
(* Properties of the accessors and of the request-finished guard.          *)
(***************************************************************************)
\* The context-scoped operations other than start() and end().
ContextOps ==
    {"invalidate", "add_to_context", "set_user", "get_user", "set_comment", "get_comment",
     "add_meta", "set_ignore_duplicates", "get_ignore_duplicates"}

\* A step in which one of these operations was called and raised.
ContextOpRaised == err'.op \in ContextOps /\ err'.error # NoError

\* C16: while the context is Idle none of these operations returns, each
\* call of them raises the management error, and the call leaves the context
\* and the store as they were.
C16_IdleCallsRaiseManagementError ==
    [][/\ depth = 0 /\ depth' = 0 /\ err'.error = NoError => UNCHANGED <<ctxVars, storeVars, returned>>
       /\ depth = 0 /\ ContextOpRaised =>
            /\ err'.error = RevisionManagementError
            /\ UNCHANGED <<ctxVars, storeVars>>]_vars

\* While the context is Idle a call of one of these operations that binds
\* its arguments raises the management error and changes nothing.
C16_IdleCallsThatBindRaiseManagementError ==
    [][/\ depth = 0 /\ depth' = 0 /\ err'.error = NoError => UNCHANGED <<ctxVars, storeVars, returned>>
       /\ depth = 0 /\ ContextOpRaised /\ err'.error # TypeError =>
            /\ err'.error = RevisionManagementError
            /\ UNCHANGED <<ctxVars, storeVars>>]_vars

\* C20: the request-finished receiver raises the management error when the
\* context is Active, returns when it is Idle, and changes nothing either way.
C20_GuardRaisesIffActive ==
    /\ [](err.op = "request_finished" => depth > 0 /\ err.error = RevisionManagementError)
    /\ [][RequestFinishedReceiver =>
            /\ depth > 0 => err' = [op |-> "request_finished", error |-> RevisionManagementError]
            /\ depth = 0 => err' = Ok
            /\ UNCHANGED <<ctxVars, storeVars>>]_vars

\* A request finished inside a revision that had recorded an object: the
\* guard raised and the revision is still open.
C20_Witness ==
    /\ err = [op |-> "request_finished", error |-> RevisionManagementError]
    /\ depth > 0
    /\ recorded

(***************************************************************************)
(* The registry: managers are constructed under a slug, and models are     *)
(* registered with them and unregistered.                                  *)
(***************************************************************************)
\* model._meta.proxy
IsProxyModel(mdl) == mdl \in ProxyModels

\* model._meta.parents.keys()[0]
ParentOf(mdl) == "B"

\* register accepting a proxy model whatever its parent.
ProxyParentMissing_Never(m, mdl) == FALSE

\* register: "model._meta.proxy and not self.is_registered(parent)".
ProxyParentMissing(m, mdl) == IsProxyModel(mdl) /\ ~IsRegistered(m, ParentOf(mdl))

\* What a registry call leaves of the rest of the state.
RegistryFrame ==
    /\ saved' = <<>>
    /\ UNCHANGED <<ctxVars, storeVars, created_managers, follow, instance_model, hostVars, returned,
                   scopes, db, references, revert, recorded>>

\* RevisionManager.register
Register(m, mdl) ==
    /\ m \in DOMAIN created_managers
    /\ IF IsRegistered(m, mdl) THEN Raises("register", RegistrationError)
       ELSE IF ProxyParentMissing(m, mdl) THEN Raises("register", RegistrationError)
       ELSE /\ registered_models' = [registered_models EXCEPT ![m] = @ \cup {mdl}]
            /\ connected' = [connected EXCEPT ![m] = @ \cup {mdl}]
            /\ err' = Ok
            /\ RegistryFrame

\* RevisionManager.unregister
Unregister(m, mdl) ==
    /\ m \in DOMAIN created_managers
    /\ IF ~IsRegistered(m, mdl) THEN Raises("unregister", RegistrationError)
       ELSE /\ registered_models' = [registered_models EXCEPT ![m] = @ \ {mdl}]
            /\ connected' = [connected EXCEPT ![m] = @ \ {mdl}]
            /\ err' = Ok
            /\ RegistryFrame

\* RevisionManager.get_adapter
GetAdapter(m, mdl) ==
    /\ m \in DOMAIN created_managers
    /\ IF IsRegistered(m, mdl) THEN Returns("get_adapter", mdl)
       ELSE Raises("get_adapter", RegistrationError)

\* RevisionManager.__init__: "if manager_slug in RevisionManager._created_managers".
SlugTaken(manager_slug) == manager_slug \in DOMAIN created_managers

\* The error __init__ raises for a slug that is taken.
SlugTakenError == RevisionManagementError

\* RevisionManager(manager_slug): the new manager is the next one constructed.
NewManager(manager_slug) ==
    IF SlugTaken(manager_slug) THEN Raises("RevisionManager", SlugTakenError)
    ELSE LET self == Cardinality(DOMAIN created_managers) + 1
         IN  /\ created_managers' = (manager_slug :> self) @@ created_managers
             /\ registered_models' = (manager_slug :> {}) @@ registered_models
             /\ connected' = (manager_slug :> {}) @@ connected
             /\ err' = Ok
             /\ saved' = <<>>
             /\ UNCHANGED <<ctxVars, storeVars, follow, instance_model, hostVars, returned, scopes,
                            db, references, revert, recorded>>

\* The module has constructed the manager "default"; nothing is registered.
InitRegistry ==
    /\ depth = 0
    /\ is_invalid = FALSE
    /\ objects = EmptyDict
    /\ user = "None"
    /\ comment = ""
    /\ meta = <<>>
    /\ ignore_duplicates = FALSE
    /\ registered_models = [m \in {"default"} |-> {}]
    /\ connected = [m \in {"default"} |-> {}]
    /\ created_managers = [m \in {"default"} |-> 1]
    /\ follow = [o \in Objects |-> IF o = 1 THEN <<2>> ELSE <<>>]
    /\ instance_model = [o \in Objects |-> IF o = 1 THEN "A" ELSE "B"]
    /\ returned = NoReturn
    /\ scopes = <<>>
    /\ InitHost
    /\ revisions = <<>>
    /\ versions = <<>>
    /\ metas = <<>>
    /\ db = [o \in Objects |-> Row(0)]
    /\ references = [o \in Objects |-> 0]
    /\ revert = NoRevert
    /\ err = Ok
    /\ saved = <<>>
    /\ recorded = FALSE

NextRegistry ==
    \/ \E m \in Managers, mdl \in Models : Register(m, mdl)
    \/ \E m \in Managers, mdl \in Models : Unregister(m, mdl)
    \/ \E m \in Managers, mdl \in Models : GetAdapter(m, mdl)
    \/ \E manager_slug \in Managers : NewManager(manager_slug)

SpecRegistry == InitRegistry /\ [][NextRegistry]_vars

(***************************************************************************)
(* Properties of the registry.                                             *)
(***************************************************************************)
RegistrationFailed(op) ==
    /\ err' = [op |-> op, error |-> RegistrationError]
    /\ UNCHANGED <<registered_models, connected>>

\* C17: register of a registered model or of a proxy model whose parent is
\* not registered, unregister and get_adapter of a model that is not
\* registered raise the registration error and leave registry and receivers
\* as they were; a model that register has accepted stays registered until
\* unregister accepts it.
C17_RegistryCallsFailWithRegistrationError ==
    [][\A m \in DOMAIN created_managers, mdl \in Models :
        /\ Register(m, mdl) /\ mdl \in registered_models[m] => RegistrationFailed("register")
        /\ Register(m, mdl) /\ mdl \in ProxyModels /\ ParentOf(mdl) \notin registered_models[m]
                => RegistrationFailed("register")
        /\ Unregister(m, mdl) /\ mdl \notin registered_models[m] => RegistrationFailed("unregister")
        /\ GetAdapter(m, mdl) /\ mdl \notin registered_models[m] => RegistrationFailed("get_adapter")
        /\ Register(m, mdl) /\ err' = Ok => mdl \in registered_models'[m] /\ mdl \in connected'[m]
        /\ mdl \in registered_models[m] /\ mdl \notin registered_models'[m]
                => Unregister(m, mdl) /\ err' = Ok]_vars

\* unregister of the proxy model failed with a manager that had accepted
\* the two other models.
C17_Witness ==
    /\ DOMAIN created_managers = {"default"}
    /\ registered_models["default"] = {"A", "B"}
    /\ connected["default"] = {"A", "B"}
    /\ err = [op |-> "unregister", error |-> RegistrationError]

\* C18: constructing a manager under a slug that is taken raises the
\* registration error, and the manager that holds the slug keeps it.
C18_TakenSlugRaisesRegistrationError ==
    [][\A manager_slug \in Managers :
        NewManager(manager_slug) /\ manager_slug \in DOMAIN created_managers =>
            /\ err' = [op |-> "RevisionManager", error |-> RegistrationError]
            /\ created_managers' = created_managers]_vars

\* Constructing a manager under a slug that is taken raises, and the manager
\* that holds the slug keeps it.
C18_TakenSlugKeepsItsManager ==
    [][\A manager_slug \in Managers :
        NewManager(manager_slug) /\ manager_slug \in DOMAIN created_managers =>
            /\ err'.op = "RevisionManager" /\ err'.error # NoError
            /\ created_managers' = created_managers]_vars

(***************************************************************************)
(* Units of work wrapped in a revision: the "with" block of __enter__ and  *)
(* __exit__, and the function wrapped by create_revision.                  *)
(***************************************************************************)
BlockKinds == {"with", "create_revision"}

\* The call that closes a block of each kind.
ExitOp(kind) == IF kind = "with" THEN "__exit__" ELSE "create_revision"

\* __enter__, and the entry of _create_on_success: self.start().  The block
\* remembers the depth it was entered at.
EnterBlock(kind) ==
    /\ depth < MaxDepth
    /\ depth' = depth + 1
    /\ scopes' = Append(scopes, [kind |-> kind, entry |-> depth])
    /\ err' = Ok
    /\ saved' = <<>>
    /\ UNCHANGED <<is_invalid, objects, user, comment, meta, ignore_duplicates, storeVars,
                   registered_models, connected, created_managers, follow, instance_model, hostVars,
                   returned, db, references, revert, recorded>>

\* A block that closes without invalidating.
InvalidatesOnError_Never(raised) == FALSE

\* __exit__: "if exc_type is not None: self.invalidate()"; _create_on_success:
\* "except: self.invalidate(); raise".
InvalidatesOnError(raised) == raised

\* __exit__ and the exit of _create_on_success, leaving the innermost block
\* while its body returned (raised = FALSE) or raised BodyError: invalidate()
\* on an error, then end() in the finally clause; the error of the body
\* propagates unless end() raises one itself.
ExitBlock(raised) ==
    /\ scopes # <<>>
    /\ LET scope == scopes[Len(scopes)]
           pending == IF raised THEN Raised(ExitOp(scope.kind), BodyError) ELSE Ok
       IN  EndCall(is_invalid \/ InvalidatesOnError(raised), pending)
    /\ scopes' = SubSeq(scopes, 1, Len(scopes) - 1)
    /\ UNCHANGED <<registered_models, connected, created_managers, follow, instance_model, hostVars,
                   returned>>

NextScoped ==
    \/ \E kind \in BlockKinds : EnterBlock(kind)
    \/ \E raised \in BOOLEAN : ExitBlock(raised)
    \/ RecordChange("default", 2)

SpecScoped == Init /\ [][NextScoped]_vars

(***************************************************************************)
(* Properties of the wrapped units of work.                                *)
(***************************************************************************)
\* C19: a block is left at the depth it was entered at, on every exit path;
\* a block left by an error invalidates the revision before it closes it and
\* hands the error on, and once the revision is invalid nothing is persisted,
\* by this exit or by the exit of an enclosing block.
C19_BlockRestoresDepthAndInvalidatesOnError ==
    [][/\ Len(scopes') < Len(scopes) => depth' = scopes[Len(scopes)].entry
       /\ ExitBlock(TRUE) =>
            /\ err' = [op |-> ExitOp(scopes[Len(scopes)].kind), error |-> BodyError]
            /\ saved' = <<>>
            /\ UNCHANGED storeVars
            /\ depth' > 0 => is_invalid'
       /\ is_invalid =>
            /\ saved' = <<>>
            /\ UNCHANGED storeVars
            /\ depth' > 0 => is_invalid']_vars

\* An inner block holding a recorded object was left by an error: the error
\* is propagating into the enclosing block, whose revision is now invalid.
C19_Witness ==
    /\ Len(scopes) = 1
    /\ depth = 1
    /\ is_invalid
    /\ recorded
    /\ err.error = BodyError

(***************************************************************************)
(* Two threads using the shared revision_context_manager.  The class       *)
(* derives from threading.local: an attribute access reaches the           *)
(* attributes of the thread that makes it.                                 *)
(***************************************************************************)
\* The context attributes of the running thread.
CurrentContext ==
    [depth |-> depth, is_invalid |-> is_invalid, objects |-> objects, user |-> user,
     comment |-> comment, meta |-> meta, ignore_duplicates |-> ignore_duplicates,
     recorded |-> recorded]

\* One attribute dictionary shared by every thread.
LocalDictOf_Shared(t) == CurrentContext

\* threading.local: the attribute dictionary of thread t, which is not running.
LocalDictOf(t) == local_dicts[t]

\* The scheduler lets thread t run: the attributes of the thread that ran are
\* set aside, and the context manager now shows those of t.
SwitchThread(t) ==
    /\ t # thread
    /\ t \in DOMAIN local_dicts
    /\ local_dicts' = [u \in (DOMAIN local_dicts \ {t}) \cup {thread} |->
                            IF u = thread THEN CurrentContext ELSE local_dicts[u]]
    /\ thread' = t
    /\ depth' = LocalDictOf(t).depth
    /\ is_invalid' = LocalDictOf(t).is_invalid
    /\ objects' = LocalDictOf(t).objects
    /\ user' = LocalDictOf(t).user
    /\ comment' = LocalDictOf(t).comment
    /\ meta' = LocalDictOf(t).meta
    /\ ignore_duplicates' = LocalDictOf(t).ignore_duplicates
    /\ recorded' = LocalDictOf(t).recorded
    /\ UNCHANGED <<storeVars, registered_models, connected, created_managers, follow,
                   instance_model, request_meta, requests, returned, scopes, db, references, revert,
                   err, saved>>

\* The running thread records the object it works on: thread t works on object t.
RecordOwn == RecordChange("default", thread)

\* The user each thread acts for.
UserOf(t) == IF t = 1 THEN "alice" ELSE "None"

NextThreads ==
    \/ \E t \in Threads : SwitchThread(t)
    \/ Start
    \/ End
    \/ Invalidate
    \/ RecordOwn
    \/ SetUser(UserOf(thread))
    \/ \E b \in BOOLEAN : SetIgnoreDuplicates(b)

SpecThreads == Init /\ [][NextThreads]_vars

(***************************************************************************)
(* Properties of the threads.                                              *)
(***************************************************************************)
\* The context attributes thread t finds.
ContextOfThread(t) == IF t = thread THEN CurrentContext ELSE local_dicts[t]

\* C21: a call changes the context attributes of no thread but the one that
\* makes it, a thread finds its attributes as it left them when it runs
\* again, and an outermost end() hands save_revision only objects that the
\* thread calling it recorded.
C21_ContextIsIsolatedPerThread ==
    [][/\ \A t \in Threads :
            thread' = thread /\ t # thread => ContextOfThread(t)' = ContextOfThread(t)
       /\ thread' # thread => \A t \in Threads : ContextOfThread(t)' = ContextOfThread(t)
       /\ \A i \in 1..Len(saved') : saved' # saved => saved'[i].objects \subseteq {thread}]_vars

\* Thread 2 is inside a revision holding its object while thread 1, set
\* aside, is two levels deep in an invalid revision of its own that holds its
\* object and its user.
C21_Witness ==
    /\ thread = 2
    /\ depth = 1
    /\ ~is_invalid
    /\ user = "None"
    /\ "default" \in DOMAIN objects
    /\ DOMAIN objects["default"] = {2}
    /\ local_dicts[1].depth = 2
    /\ local_dicts[1].is_invalid
    /\ local_dicts[1].user = "alice"
    /\ "default" \in DOMAIN local_dicts[1].objects
    /\ DOMAIN local_dicts[1].objects["default"] = {1}

(***************************************************************************)
(* Properties of the registry as a whole.                                  *)
(***************************************************************************)
\* Every proxy model registered with manager m has its parent registered
\* with m.
ProxiesHaveParents(registry, m) ==
    \A mdl \in registry[m] : IsProxyModel(mdl) => ParentOf(mdl) \in registry[m]

\* C27: whatever register and unregister calls were made, every proxy model
\* registered with a manager has its parent registered with that manager.
C27_RegisteredProxyHasRegisteredParent ==
    \A m \in DOMAIN registered_models : ProxiesHaveParents(registered_models, m)

\* register keeps it so, and so does every call that fails; only an
\* unregister that succeeds can take the parent from under a proxy.
C27_OnlyUnregisterOrphansProxy ==
    [][\A m \in DOMAIN registered_models :
        ProxiesHaveParents(registered_models, m) /\ ~ProxiesHaveParents(registered_models', m)
        => /\ err' = Ok
           /\ \E mdl \in Models : Unregister(m, mdl) /\ mdl = ParentOf("ProxyB")]_vars

(***************************************************************************)
(* Properties of the reads of the context metadata.                        *)
(***************************************************************************)
\* C25: while the context is Active, a read of the user, of the comment or of
\* ignore_duplicates, made as the RevisionManager properties make it,
\* succeeds and returns the value the context holds: the one set last, or
\* the default.
C25_ActiveReadsReturnLastSetValue ==
    [][IsActive(depth) =>
        /\ GetUser => err' = Ok /\ returned' = [op |-> "get_user", value |-> user]
        /\ GetComment(0) => err' = Ok /\ returned' = [op |-> "get_comment", value |-> comment]
        /\ GetIgnoreDuplicates(0) =>
                /\ err' = Ok
                /\ returned' = [op |-> "get_ignore_duplicates", value |-> ignore_duplicates]]_vars

\* The reads that do return what was set last: get_user, and
\* get_ignore_duplicates when it is handed the argument its signature asks for.
C25_ReadsThatBindReturnLastSetValue ==
    [][IsActive(depth) =>
        /\ GetUser => err' = Ok /\ returned' = [op |-> "get_user", value |-> user]
        /\ GetIgnoreDuplicates(1) =>
                /\ err' = Ok
                /\ returned' = [op |-> "get_ignore_duplicates", value |-> ignore_duplicates]]_vars

(***************************************************************************)
(* save_revision called on both managers over the one store, every write   *)
(* succeeding.                                                             *)
(***************************************************************************)
NextSaveManagers ==
    \/ \E m \in Managers, objs \in SaveObjects, ign \in BOOLEAN, usr \in SaveUsers,
          cmt \in SaveComments :
            SaveRevisionCall(m, objs, ign, usr, cmt, <<>>, NoFailure)
    \/ \E o \in ModifiedObjects, v \in Vals : ModelSave(o, v)

SpecSaveManagers == Init /\ [][NextSaveManagers]_vars

\* The store as manager m would find it if it held the revisions created
\* under the slug of m only: the versions of the other revisions are left out.
OwnStore(st, m) ==
    [st EXCEPT !.versions = SelectSeq(@, LAMBDA v : st.revisions[v.revision].manager_slug = m)]

\* C26: whether a save_revision call with ignore_duplicates that returns
\* creates a revision is decided by the revisions created under the slug of
\* its own manager: it creates one exactly when the candidate does not repeat
\* the latest of them that shares an object with it.
C26_DuplicateCheckSeesOwnRevisionsOnly ==
    [][\A m \in Managers :
        /\ saved' # <<>>
        /\ saved'[1].manager = m
        /\ saved'[1].ignore_duplicates
        /\ saved'[1].objects # {}
        /\ err' = Ok
        => saved'[1].created =
             ShouldSave(OwnStore(Store, m),
                        NewVersions(FollowRelationships(m, AdaptObjects(saved'[1].objects)).result),
                        TRUE)]_vars

(***************************************************************************)
(* RevisionMiddleware around the views of the test application, on the     *)
(* requests one thread serves one after the other.                         *)
(***************************************************************************)
\* The request is between process_request and process_response.
InFlight(r) == requests[r].pc \in {"view", "raised", "returned", "handled"}

NoRequestInFlight == \A r \in Requests : ~InFlight(r)

\* request.user: request 1 comes from alice, request 2 from an anonymous user.
RequestUser(r) == IF r = 1 THEN "alice" ELSE "None"

\* process_request: 'hasattr(request, "user") and request.user.is_authenticated()'.
IsAuthenticated(u) == u # "None"

\* A process_response that closes the revision whatever the flag says.
MiddlewareFlag_Always(r) == TRUE

\* process_response: "request.META.get(REVISION_MIDDLEWARE_FLAG, False)".
MiddlewareFlag(r) == request_meta[r]

middlewareFrame ==
    <<registered_models, connected, created_managers, follow, instance_model, thread,
      local_dicts, returned, scopes>>

\* RevisionMiddleware.process_request
ProcessRequest(r) ==
    /\ requests[r].pc = "new"
    /\ NoRequestInFlight
    /\ depth < MaxDepth
    /\ request_meta' = [request_meta EXCEPT ![r] = TRUE]
    /\ depth' = depth + 1
    /\ user' = IF IsAuthenticated(RequestUser(r)) THEN RequestUser(r) ELSE user
    /\ requests' = [requests EXCEPT ![r] = [pc |-> "view", entry |-> depth, raised |-> FALSE]]
    /\ err' = Ok
    /\ saved' = <<>>
    /\ UNCHANGED <<is_invalid, objects, comment, meta, ignore_duplicates, storeVars,
                   middlewareFrame, db, references, revert, recorded>>

\* save_obj_view (raises = FALSE) and save_obj_error_view (raises = TRUE):
\* TestModel.objects.create() inserts the row of the request's object and
\* sends post_save; the error view then raises.
View(r, raises) ==
    /\ requests[r].pc = "view"
    /\ db' = [db EXCEPT ![r] = Row(Max(Vals))]
    /\ objects' = NotifyPostSave(objects, Receivers(r), r, Max(Vals), TRUE)
    /\ recorded' = (recorded \/ objects' # objects)
    /\ requests' = [requests EXCEPT ![r].pc = IF raises THEN "raised" ELSE "returned",
                                    ![r].raised = raises]
    /\ err' = IF raises THEN Raised("save_obj_error_view", BodyError) ELSE Ok
    /\ saved' = <<>>
    /\ UNCHANGED <<depth, is_invalid, user, comment, meta, ignore_duplicates, storeVars,
                   middlewareFrame, request_meta, references, revert>>

\* RevisionMiddleware.process_exception, which the handler calls when the
\* view raised.
ProcessException(r) ==
    /\ requests[r].pc = "raised"
    /\ IF AssertActiveRaises(depth)
       THEN /\ err' = Raised("invalidate", RevisionManagementError)
            /\ UNCHANGED is_invalid
       ELSE /\ is_invalid' = TRUE
            /\ err' = Ok
    /\ requests' = [requests EXCEPT ![r].pc = "handled"]
    /\ saved' = <<>>
    /\ UNCHANGED <<depth, objects, user, comment, meta, ignore_duplicates, storeVars,
                   middlewareFrame, request_meta, db, references, revert, recorded>>

\* RevisionMiddleware.process_response, on the response of the view, on the
\* error response made after process_exception, on a response made before
\* process_request ran (pc = "new"), or a second time on the same request.
ProcessResponse(r) ==
    /\ requests[r].pc \in {"new", "returned", "handled", "responded"}
    /\ InFlight(r) \/ NoRequestInFlight
    /\ IF MiddlewareFlag(r)
       THEN /\ request_meta' = [request_meta EXCEPT ![r] = FALSE]
            /\ EndCall(is_invalid, Ok)
       ELSE /\ err' = Ok
            /\ saved' = <<>>
            /\ UNCHANGED <<ctxVars, storeVars, request_meta, db, references, revert, recorded>>
    /\ requests' = [requests EXCEPT ![r].pc = "responded"]
    /\ UNCHANGED middlewareFrame

\* A revision block entered and left around the requests, by the caller of
\* the handler.
OuterStart == NoRequestInFlight /\ Start /\ depth = 0

OuterEnd == NoRequestInFlight /\ End

NextMiddleware ==
    \/ \E r \in Requests : ProcessRequest(r)
    \/ \E r \in Requests, raises \in BOOLEAN : View(r, raises)
    \/ \E r \in Requests : ProcessException(r)
    \/ \E r \in Requests : ProcessResponse(r)
    \/ OuterStart
    \/ OuterEnd

SpecMiddleware == Init /\ [][NextMiddleware]_vars

(***************************************************************************)
(* Properties of the middleware.                                           *)
(***************************************************************************)
\* C24: process_response brings the depth back to what it was when
\* process_request ran; it calls end() only on a request that carries the
\* flag process_request set, and removes the flag, so that a response to a
\* request that never passed process_request, or a second response, leaves
\* the context alone; and when process_exception ran the revision is invalid
\* and the response persists nothing.
C24_MiddlewareKeepsContextBalanced ==
    [][\A r \in Requests :
        /\ request_meta[r] => InFlight(r)
        /\ ProcessResponse(r) /\ InFlight(r) => depth' = requests[r].entry
        /\ ProcessResponse(r) => ~request_meta'[r]
        /\ ProcessResponse(r) /\ ~InFlight(r) =>
                /\ UNCHANGED <<ctxVars, storeVars, recorded>>
                /\ err' = Ok
                /\ saved' = <<>>
        /\ ProcessException(r) => is_invalid' /\ err' = Ok
        /\ ProcessResponse(r) /\ requests[r].raised /\ InFlight(r) =>
                /\ UNCHANGED storeVars
                /\ saved' = <<>>]_vars

\* Request 2 stored a revision of its object; request 1, whose view recorded
\* its object and raised, was answered after process_exception without one,
\* and the context is idle again.
C24_Witness ==
    /\ requests[1] = [pc |-> "responded", entry |-> 0, raised |-> TRUE]
    /\ requests[2] = [pc |-> "responded", entry |-> 0, raised |-> FALSE]
    /\ Len(revisions) = 1
    /\ \A i \in 1..Len(versions) : versions[i].object_id = 2
    /\ db[1] = Row(Max(Vals))
    /\ depth = 0
    /\ ~request_meta[1]
    /\ saved = <<>>
    /\ err = Ok

(***************************************************************************)
(* safe_revert run to its end, and safe_revert on versions whose revert    *)
(* can raise errors of other kinds.                                        *)
(***************************************************************************)
\* safe_revert keeps running until it returns or raises.
SpecRevertFair == InitRevert /\ [][NextRevert]_vars /\ WF_vars(NextRevert)

\* What version.revert() can meet besides the errors of the store: a missing
\* row, and an error that is neither an integrity error nor a missing row.
RevertFaults == {NoError, ObjectDoesNotExist, DatabaseError}

NextRevertFaults ==
    \/ \E fault \in RevertFaults : RevertOneWith(fault)
    \/ RevertCheck

SpecRevertFaults == InitRevert /\ [][NextRevertFaults]_vars

(***************************************************************************)
(* Properties of the passes of safe_revert.                                *)
(***************************************************************************)
BatchSize == Len(revert.batch)

C23_OtherErrorsPropagate ==
    [][/\ RevertOneWith(ObjectDoesNotExist) =>
            /\ revert'.pc = "loop"
            /\ revert'.unreverted_versions = Append(revert.unreverted_versions, revert.versions[revert.i])
            /\ db' = db
            /\ err' = Ok
       /\ RevertOneWith(DatabaseError) =>
            /\ revert'.pc = "aborted"
            /\ err' = [op |-> "safe_revert", error |-> DatabaseError]
            /\ db' = db
            /\ revert'.unreverted_versions = revert.unreverted_versions
            /\ revert'.reverted = revert.reverted
       /\ \A o \in revert.reverted : db'[o] = Row(RestoredVal)
       /\ revert.pc = "aborted" => revert' = revert /\ db' = db]_vars

\* safe_revert was left by an error of another kind after it had reverted a
\* version: that version keeps its row, the failed one its old state.
C23_Witness ==
    /\ revert.pc = "aborted"
    /\ err = [op |-> "safe_revert", error |-> DatabaseError]
    /\ revert.reverted # {}
    /\ \A o \in revert.reverted : db[o] = Row(RestoredVal) /\ db[o] # revert.before[o]
    /\ \E o \in BatchObjects \ revert.reverted : db[o] = revert.before[o]

====
